---- MODULE Spec2Model ----
(***************************************************************************)
(* A model of fast-webgl: the FastWebGL wrapper (src/src/texture.ts, lines *)
(* 99-383), its Texture units (src/src/texture.ts, lines 1-97) and its     *)
(* Shader units (src/src/shader.ts), driving one WebGL rendering context.  *)
(*                                                                         *)
(* Every FastWebGL built on the same canvas receives the same context      *)
(* (canvas.getContext("webgl") answers with the context it made before),   *)
(* so the instances of the model share the variables gl, canvas and objs.  *)
(* The graphics layer is modelled as far as the wrapper observes it: the   *)
(* program in use, the viewport, the texture bound to each unit, the       *)
(* uniform values of each program, the number of drawArrays calls issued   *)
(* since the host's latest call began, and for every object the wrapper    *)
(* creates whether it exists and how many delete calls named it.  A call   *)
(* the graphics layer rejects (a uniform location of a program that is not *)
(* in use, a deleted object) changes nothing.                              *)
(***************************************************************************)
EXTENDS Integers, Sequences, FiniteSets, TLC

VARIABLES gl, canvas, objs, inst

vars == <<gl, canvas, objs, inst>>

----------------------------------------------------------------------------
(* Bounds and input sets *)

\* the longest array value handed to a uniform (one past the last vec size)
MaxLen == 5
\* the most texture descriptors handed to one constructor
MaxTextures == 2

\* the FastWebGL objects built on the one canvas
Instances == {1, 2}

\* the null program / null handle owner of the graphics layer
Null == 0

\* canvas widths and heights the caller passes
Dims == {1, 2}

\* uniform names the caller uses: "u_time" and "u_res" may be declared by a
\* shader; "toString" is a name every JavaScript object literal inherits
\* from Object.prototype and that no shader of the model declares
UniformNames == {"u_time", "u_res", "toString"}
InheritedNames == {"toString"}

\* the sampler uniform named by the k-th texture descriptor (0-based)
TexName(k) == <<"u_tex0", "u_tex1", "u_tex2", "u_tex3">>[k + 1]
TexNames == {TexName(k) : k \in 0..(MaxTextures - 1)}

AllNames == UniformNames \cup TexNames

\* fragment sources that compile, by the uniforms they declare
FragmentSources == {"full", "partial"}
Declared(src) ==
    IF src = "full" THEN {"u_time", "u_res"} \cup TexNames
                    ELSE {"u_time", TexName(0)}

\* uniform values: number | number[]  (src/src/types.ts:3)
Num(x) == [isArray |-> FALSE, elems |-> <<x>>]
Arr(s) == [isArray |-> TRUE, elems |-> s]
Iota(n) == [j \in 1..n |-> j]
Values == {Num(7)} \cup {Arr(Iota(n)) : n \in 0..MaxLen}

----------------------------------------------------------------------------
(* The graphics layer: objects, program in use, uniforms, texture units *)

Kinds == {"vertexShader", "fragmentShader", "program", "buffer", "texture"}
Units == 0..(MaxTextures - 1)

\* the object the owner-th constructor creates as its kind (and k-th texture)
Handle(owner, kind, k) == <<owner, kind, k>>
Handles == {Handle(i, kind, 0) : i \in Instances, kind \in Kinds \ {"texture"}}
           \cup {Handle(i, "texture", k) : i \in Instances, k \in Units}
NoHandle == Handle(Null, "none", 0)

ProgramOf(i) == Handle(i, "program", 0)

\* an object that was created and that no delete call has named
Live(o, h) == o[h].created /\ o[h].deletes = 0

NullLocation == [program |-> Null, name |-> ""]
UnsetUniform == [fn |-> "unset", args |-> <<>>]

\* gl.createShader / createProgram / createTexture / createBuffer
Create(o, h) == [o EXCEPT ![h].created = TRUE]

\* gl.deleteShader / deleteProgram / deleteTexture: one more delete call names h
Delete(o, h) == [o EXCEPT ![h].deletes = @ + 1]

\* gl.deleteTexture also unbinds the texture from every unit it is bound to
Unbind(g, h) ==
    [g EXCEPT !.boundTexture = [u \in Units |-> IF @[u] = h THEN NoHandle ELSE @[u]]]

\* gl.useProgram: a deleted program is rejected
UseProgram(g, o, p) ==
    IF Live(o, ProgramOf(p)) THEN [g EXCEPT !.program = p] ELSE g

\* gl.getUniformLocation: null unless the program is usable and declares name
GetUniformLocation(g, o, p, name) ==
    IF Live(o, ProgramOf(p)) /\ name \in g.active[p]
    THEN [program |-> p, name |-> name]
    ELSE NullLocation

\* gl.uniform1f .. uniform4f, uniform1i: a null location is ignored, a location
\* of a program that is not the one in use is rejected
Uniform(g, location, fn, args) ==
    IF location = NullLocation \/ location.program # g.program
    THEN g
    ELSE [g EXCEPT !.uniform[location.program][location.name] =
                       [fn |-> fn, args |-> args]]

\* gl.getUniform(program, location): the value read back
GetUniform(g, p, name) == g.uniform[p][name]

\* the texture unit a sampler uniform selects: 0 until uniform1i writes it
SamplerUnit(g, p, name) ==
    IF GetUniform(g, p, name) = UnsetUniform THEN 0
    ELSE GetUniform(g, p, name).args[1]

\* gl.activeTexture followed by gl.bindTexture: a deleted texture is rejected
BindTexture(g, o, unit, h) ==
    IF Live(o, h)
    THEN [g EXCEPT !.activeTexture = unit, !.boundTexture[unit] = h]
    ELSE [g EXCEPT !.activeTexture = unit]

----------------------------------------------------------------------------
(* The wrapper.  Its methods are operators on a world w: the graphics      *)
(* layer (w.gl, w.canvas, w.objs), the object the method runs on (w.self)  *)
(* and whether an exception is propagating (w.thrown).                     *)

Undefined == [isArray |-> FALSE, elems |-> <<>>]

\* the world a call by the host on instance i starts in: gl.draws counts the
\* drawArrays calls issued since the host's latest call began
World(i) == [gl |-> [gl EXCEPT !.draws = 0], canvas |-> canvas, objs |-> objs,
             self |-> inst[i], thrown |-> FALSE]

\* the world an image callback of instance i starts in
CallbackWorld(i) == [gl |-> gl, canvas |-> canvas, objs |-> objs,
                     self |-> inst[i], thrown |-> FALSE]

Throw(w) == [w EXCEPT !.thrown = TRUE]

\* Shader.createShader; outcome is what the driver answers for the source
createShader(w, h, outcome) ==
    IF w.thrown THEN w
    ELSE IF outcome = "null" THEN Throw(w)
    ELSE IF outcome = "compileError"
         THEN Throw([w EXCEPT !.objs = Delete(Create(@, h), h)])
    ELSE [w EXCEPT !.objs = Create(@, h)]

\* FastWebGL.createContext
createContext(w, outcome) ==
    IF w.thrown THEN w
    ELSE IF outcome = "null" THEN Throw(w)
    ELSE w

\* FastWebGL.createProgram; source names the fragment source that was linked
createProgram(w, i, outcome, source) ==
    IF w.thrown THEN w
    ELSE IF outcome = "null" THEN Throw(w)
    ELSE IF outcome = "linkError"
         THEN Throw([w EXCEPT !.objs = Delete(Create(@, ProgramOf(i)), ProgramOf(i))])
    ELSE [w EXCEPT !.objs = Create(@, ProgramOf(i)),
                   !.gl.active[i] = Declared(source)]

\* new Texture(...): createTexture, then loadTexture, which only starts the
\* image load; the unit of the k-th descriptor is k
NewTexture(w, i, k, name, outcome) ==
    IF w.thrown THEN w
    ELSE IF outcome = "null" THEN Throw(w)
    ELSE [w EXCEPT !.objs = Create(@, Handle(i, "texture", k)),
                   !.self.textures = Append(@, [name |-> name, unit |-> k,
                                                loadState |-> "PENDING",
                                                calls |-> <<>>])]

\* textures.map(...) of the constructor: descriptors 0 .. n-1 in order; when
\* failAt is a descriptor's index, createTexture answers null for it
RECURSIVE MapTextures(_, _, _, _, _)
MapTextures(w, i, names, k, failAt) ==
    IF k >= Len(names) THEN w
    ELSE MapTextures(NewTexture(w, i, k, names[k + 1],
                                IF k = failAt THEN "null" ELSE "ok"),
                     i, names, k + 1, failAt)

\* what this.uniforms[name] evaluates to: the location registered under name;
\* else, this.uniforms being an object literal, the Object.prototype member
\* of that name (a function: truthy, and no WebGLUniformLocation); else
\* undefined
InheritedMember == [program |-> Null, name |-> "Object.prototype"]
Lookup(self, i, name) ==
    IF name \in self.uniforms THEN [program |-> i, name |-> name]
    ELSE IF name \in InheritedNames THEN InheritedMember
    ELSE NullLocation

\* a call this.gl.uniformNf(location, ...) made by the wrapper: an argument
\* that is no WebGLUniformLocation makes the binding throw a TypeError
glUniform(w, location, fn, args) ==
    IF location = InheritedMember THEN Throw(w)
    ELSE [w EXCEPT !.gl = Uniform(@, location, fn, args)]

\* setUniformValue with the switch falling through to vec4 for longer arrays
setUniformValueTruncating(w, location, value) ==
    IF w.thrown THEN w
    ELSE IF ~value.isArray THEN glUniform(w, location, "uniform1f", value.elems)
    ELSE IF Len(value.elems) = 0 THEN w
    ELSE IF Len(value.elems) < 4
         THEN glUniform(w, location,
                        <<"uniform1f", "uniform2f", "uniform3f">>[Len(value.elems)],
                        value.elems)
    ELSE glUniform(w, location, "uniform4f", SubSeq(value.elems, 1, 4))

\* FastWebGL.setUniformValue
setUniformValue(w, location, value) ==
    IF w.thrown THEN w
    ELSE IF ~value.isArray THEN glUniform(w, location, "uniform1f", value.elems)
    ELSE IF Len(value.elems) = 1
         THEN glUniform(w, location, "uniform1f", <<value.elems[1]>>)
    ELSE IF Len(value.elems) = 2
         THEN glUniform(w, location, "uniform2f", <<value.elems[1], value.elems[2]>>)
    ELSE IF Len(value.elems) = 3
         THEN glUniform(w, location, "uniform3f",
                        <<value.elems[1], value.elems[2], value.elems[3]>>)
    ELSE IF Len(value.elems) = 4
         THEN glUniform(w, location, "uniform4f",
                        <<value.elems[1], value.elems[2], value.elems[3],
                          value.elems[4]>>)
    ELSE w

\* FastWebGL.setUniforms: the descriptors in order; one whose name the linked
\* program does not declare is skipped
RECURSIVE setUniforms(_, _, _)
setUniforms(w, i, uniforms) ==
    IF w.thrown \/ uniforms = <<>> THEN w
    ELSE LET name == Head(uniforms).name
             value == Head(uniforms).value
             location == GetUniformLocation(w.gl, w.objs, i, name)
         IN  IF location = NullLocation
             THEN setUniforms(w, i, Tail(uniforms))
             ELSE setUniforms(
                      setUniformValue(
                          [w EXCEPT !.self.uniforms = @ \cup {name},
                                    !.self.uniformValues[name] = value],
                          location, value),
                      i, Tail(uniforms))

\* FastWebGL.draw: viewport over the canvas, clear, useProgram, drawArrays
draw(w, i) ==
    IF w.thrown THEN w
    ELSE [w EXCEPT !.gl = [UseProgram(@, w.objs, i) EXCEPT
                               !.viewport = <<0, 0, w.canvas.width, w.canvas.height>>,
                               !.draws = @ + 1]]

\* resize that also redraws
resizeAndDraw(w, width, height) ==
    IF w.thrown THEN w
    ELSE [w EXCEPT !.self.width = width,
                   !.self.height = height,
                   !.canvas = [width |-> width, height |-> height],
                   !.gl = [@ EXCEPT !.viewport = <<0, 0, width, height>>,
                                    !.draws = @ + 1]]

\* FastWebGL.resize
resize(w, width, height) ==
    IF w.thrown THEN w
    ELSE [w EXCEPT !.self.width = width,
                   !.self.height = height,
                   !.canvas = [width |-> width, height |-> height],
                   !.gl.viewport = <<0, 0, width, height>>]

\* FastWebGL.updateUniform
updateUniform(w, i, name, value) ==
    LET location == Lookup(w.self, i, name)
    IN  IF location = NullLocation THEN w
        ELSE draw(setUniformValue([w EXCEPT !.self.uniformValues[name] = value],
                                  location, value), i)

\* FastWebGL.setupAttributes: the quad buffer is created, filled and bound to
\* a_position; the buffer handle is kept in no field
setupAttributes(w, i, outcome) ==
    IF w.thrown THEN w
    ELSE IF outcome = "null" THEN Throw(w)
    ELSE [w EXCEPT !.objs = Create(@, Handle(i, "buffer", 0))]

\* Texture.dispose
disposeTexture(w, h) ==
    [w EXCEPT !.gl = IF Live(w.objs, h) THEN Unbind(@, h) ELSE @,
              !.objs = Delete(@, h)]

\* this.textures.forEach((texture) => texture.dispose())
RECURSIVE disposeTextures(_, _, _)
disposeTextures(w, i, k) ==
    IF k >= Len(w.self.textures) THEN w
    ELSE disposeTextures(disposeTexture(w, Handle(i, "texture", k)), i, k + 1)

\* FastWebGL.dispose: the program, both shaders, every texture
dispose(w, i) ==
    disposeTextures(
        [w EXCEPT !.objs = Delete(Delete(Delete(@, ProgramOf(i)),
                                         Handle(i, "vertexShader", 0)),
                                  Handle(i, "fragmentShader", 0)),
                  !.self.disposed = TRUE],
        i, 0)

\* the gl calls of image.onload, in the order the callback issues them
OnloadCalls ==
    <<"activeTexture", "bindTexture", "texImage2D", "texParameteri",
      "texParameteri", "texParameteri", "texParameteri",
      "getUniformLocation", "uniform1i">>

\* gl.texImage2D and gl.texParameteri act on the texture bound to the active
\* unit, and are rejected when none is bound
TexImageAndParameters(w) ==
    LET target == w.gl.boundTexture[w.gl.activeTexture]
    IN  IF target = NoHandle THEN w
        ELSE [w EXCEPT !.objs[target].image = TRUE, !.objs[target].params = TRUE]

\* onload that ignores a completion arriving after the texture was released
onloadUnlessReleased(w, i, k) ==
    LET t == w.self.textures[k + 1]
        bound == [w EXCEPT !.gl = BindTexture(@, w.objs, t.unit, Handle(i, "texture", k))]
        filled == TexImageAndParameters(bound)
        location == GetUniformLocation(filled.gl, filled.objs, i, t.name)
    IN  IF ~Live(w.objs, Handle(i, "texture", k))
        THEN [w EXCEPT !.self.textures[k + 1].loadState = "LOADED"]
        ELSE [filled EXCEPT !.gl = Uniform(@, location, "uniform1i", <<t.unit>>),
                            !.self.textures[k + 1].loadState = "LOADED",
                            !.self.textures[k + 1].calls = OnloadCalls]

\* image.onload of the k-th Texture of instance i  (Texture.loadTexture)
onload(w, i, k) ==
    LET t == w.self.textures[k + 1]
        bound == [w EXCEPT !.gl = BindTexture(@, w.objs, t.unit, Handle(i, "texture", k))]
        filled == TexImageAndParameters(bound)
        location == GetUniformLocation(filled.gl, filled.objs, i, t.name)
    IN  [filled EXCEPT !.gl = Uniform(@, location, "uniform1i", <<t.unit>>),
                       !.self.textures[k + 1].loadState = "LOADED",
                       !.self.textures[k + 1].calls = OnloadCalls]

\* onerror wired to the upload handler as well
onerrorUploading(w, i, k) ==
    Throw([onload(w, i, k) EXCEPT !.self.textures[k + 1].loadState = "FAILED"])

\* image.onerror: throws on the event loop, outside every caller
onerror(w, i, k) ==
    Throw([w EXCEPT !.self.textures[k + 1].loadState = "FAILED"])

\* the step at which a construction fails, "none" when it succeeds
FailPoints ==
    {"none", "context", "vertexCreate", "vertexCompile", "fragmentCreate",
     "fragmentCompile", "programCreate", "link", "texture", "buffer"}

Outcome(fail, null, error) ==
    IF fail = null THEN "null" ELSE IF fail = error THEN "compileError" ELSE "ok"

\* FastWebGL.constructor; p.fail names the step the environment makes fail
\* (for "texture": createTexture of the last descriptor)
constructor(w, i, p) ==
    LET ctx == createContext(w, Outcome(p.fail, "context", ""))
        sized == IF ctx.thrown THEN ctx
                 ELSE [ctx EXCEPT !.self.width = p.width, !.self.height = p.height]
        vs == createShader(sized, Handle(i, "vertexShader", 0),
                           Outcome(p.fail, "vertexCreate", "vertexCompile"))
        fs == createShader(vs, Handle(i, "fragmentShader", 0),
                           Outcome(p.fail, "fragmentCreate", "fragmentCompile"))
        prog == createProgram(fs, i,
                              IF p.fail = "programCreate" THEN "null"
                              ELSE IF p.fail = "link" THEN "linkError" ELSE "ok",
                              p.fragment)
        texs == MapTextures(prog, i, p.textures, 0,
                            IF p.fail = "texture" THEN Len(p.textures) - 1 ELSE -1)
        used == IF texs.thrown THEN texs
                ELSE [texs EXCEPT !.gl = UseProgram(@, texs.objs, i)]
        attrs == setupAttributes(used, i, Outcome(p.fail, "buffer", ""))
        unis == setUniforms(attrs, i, p.uniforms)
        done == draw(resize(unis, unis.self.width, unis.self.height), i)
    IN  [done EXCEPT !.self.status = IF done.thrown THEN "threw" ELSE "ok"]

----------------------------------------------------------------------------
(* Inputs of the constructor *)

TextureLists == {[k \in 1..n |-> TexName(k - 1)] : n \in 0..MaxTextures}

\* the uniform descriptor lists of one descriptor at most, and of two at most
\* (a name may be listed twice), over the given names and values
UniformListsOver(names, values) ==
    {<<>>} \cup {<<d>> : d \in [name : names, value : values]}
UniformPairsOver(names, values) ==
    UniformListsOver(names, values)
    \cup {<<d, e>> : d \in [name : names, value : values],
                     e \in [name : names, value : values]}

ParamsOver(fails, sources, textures, uniforms, dims) ==
    {p \in [fail : fails, fragment : sources, textures : textures,
            uniforms : uniforms, width : dims, height : dims] :
        p.fail = "texture" => p.textures # <<>>}

----------------------------------------------------------------------------
(* State machine *)

NoInstance ==
    [status |-> "none", width |-> 0, height |-> 0, textures |-> <<>>,
     uniforms |-> {}, uniformValues |-> [n \in UniformNames |-> Undefined],
     disposed |-> FALSE]

Init ==
    /\ \E cw \in Dims, ch \in Dims :
          /\ canvas = [width |-> cw, height |-> ch]
          /\ gl = [program |-> Null,
                   viewport |-> <<0, 0, cw, ch>>,
                   activeTexture |-> 0,
                   boundTexture |-> [u \in Units |-> NoHandle],
                   uniform |-> [i \in Instances |-> [n \in AllNames |-> UnsetUniform]],
                   active |-> [i \in Instances |-> {}],
                   draws |-> 0]
    /\ objs = [h \in Handles |-> [created |-> FALSE, deletes |-> 0,
                                  image |-> FALSE, params |-> FALSE]]
    /\ inst = [i \in Instances |-> NoInstance]

\* the state a method leaves behind
Commit(w, i) ==
    /\ gl' = w.gl
    /\ canvas' = w.canvas
    /\ objs' = w.objs
    /\ inst' = [inst EXCEPT ![i] = w.self]

\* the caller holds instance i and has not disposed of it
Usable(i) == inst[i].status = "ok" /\ ~inst[i].disposed

\* new FastWebGL(p)
Construct(i, p) ==
    /\ inst[i].status = "none"
    /\ Commit(constructor(World(i), i, p), i)

UpdateUniform(i, name, value) ==
    /\ Usable(i)
    /\ Commit(updateUniform(World(i), i, name, value), i)

Draw(i) ==
    /\ Usable(i)
    /\ Commit(draw(World(i), i), i)

Resize(i, width, height) ==
    /\ Usable(i)
    /\ Commit(resize(World(i), width, height), i)

Dispose(i) ==
    /\ Usable(i)
    /\ Commit(dispose(World(i), i), i)

Pending(i, k) ==
    /\ k < Len(inst[i].textures)
    /\ inst[i].textures[k + 1].loadState = "PENDING"

\* the image of texture k of instance i finishes loading
OnLoad(i, k) ==
    /\ Pending(i, k)
    /\ Commit(onload(CallbackWorld(i), i, k), i)

\* the image of texture k of instance i fails to load
OnError(i, k) ==
    /\ Pending(i, k)
    /\ Commit(onerror(CallbackWorld(i), i, k), i)

\* The lifecycle of the wrappers built on one canvas: constructions that
\* succeed or fail at any step, texture loads completing in any order,
\* drawing and disposal.  The source that leaves the second sampler
\* undeclared is linked with two textures.
LifecycleParams ==
    {p \in ParamsOver(FailPoints, FragmentSources, TextureLists, {<<>>}, {1}) :
        p.fragment = "partial" => (p.fail = "none" /\ Len(p.textures) = 2)}

Next ==
    \/ \E i \in Instances, p \in LifecycleParams : Construct(i, p)
    \/ \E i \in Instances : Draw(i)
    \/ \E i \in Instances : Dispose(i)
    \/ \E i \in Instances, k \in Units : OnLoad(i, k)
    \/ \E i \in Instances, k \in Units : OnError(i, k)

Spec == Init /\ [][Next]_vars

\* Uniform registration and update on wrappers sharing one canvas, over the
\* names a shader may declare and one value of each kind: registered with a
\* scalar or the empty array, updated with these, a vec2 or an array of
\* MaxLen elements.
DeclarableNames == UniformNames \ InheritedNames
InitialValues == {Num(7), Arr(Iota(0))}
SomeValues == InitialValues \cup {Arr(Iota(2)), Arr(Iota(MaxLen))}

UniformParams ==
    ParamsOver({"none"}, FragmentSources, {<<>>},
               UniformListsOver(DeclarableNames, InitialValues), {1})

NextUniforms ==
    \/ \E i \in Instances, p \in UniformParams : Construct(i, p)
    \/ \E i \in Instances, name \in DeclarableNames, value \in SomeValues :
          UpdateUniform(i, name, value)
    \/ \E i \in Instances : Draw(i)

SpecUniforms == Init /\ [][NextUniforms]_vars

\* The value encoding on one wrapper, over every value: the scalar and the
\* arrays of 0 .. MaxLen elements.
EncodingParams ==
    ParamsOver({"none"}, FragmentSources, {<<>>},
               UniformPairsOver(UniformNames, Values), {1})

NextEncoding ==
    \/ \E p \in EncodingParams : Construct(1, p)
    \/ \E name \in UniformNames, value \in Values : UpdateUniform(1, name, value)

SpecEncoding == Init /\ [][NextEncoding]_vars

\* Sizing and drawing on wrappers sharing one canvas.
ViewportParams ==
    ParamsOver({"none", "link"}, FragmentSources, {<<>>},
               UniformListsOver({"u_time"}, {Num(7)}), {1})

NextViewport ==
    \/ \E i \in Instances, p \in ViewportParams : Construct(i, p)
    \/ \E i \in Instances, width \in Dims, height \in Dims : Resize(i, width, height)
    \/ \E i \in Instances : Draw(i)

SpecViewport == Init /\ [][NextViewport]_vars

----------------------------------------------------------------------------
(* Uniform update: claims C1, C2, C3 *)

\* the value of uniform name of instance i's program has been uploaded and
\* its components, read back from the graphics layer, are those of value
ReadsBack(g, i, name, value) ==
    /\ GetUniform(g, i, name).fn # "unset"
    /\ GetUniform(g, i, name).args = value.elems

\* C1: updateUniform(name, value) is a no-op whenever name is not in the
\* uniform registry: the stored uniform values, the registry and the
\* graphics-layer uniform values are unchanged and no draw is issued.
C1_UnregisteredUpdateIsNoOp ==
    [][\A i \in Instances, name \in UniformNames, value \in Values :
          (name \notin inst[i].uniforms /\ UpdateUniform(i, name, value))
          => /\ inst'[i].uniformValues = inst[i].uniformValues
             /\ inst'[i].uniforms = inst[i].uniforms
             /\ gl'.uniform = gl.uniform
             /\ gl'.draws = 0]_vars

\* C2: for a name registered at construction, every updateUniform(name, v) stores
\* v, uploads v so that the value read back equals v, and draws exactly once.
C2_EveryUpdateUploads ==
    [][\A i \in Instances, name \in UniformNames, value \in SomeValues :
          (name \in inst[i].uniforms /\ UpdateUniform(i, name, value))
          => /\ inst'[i].uniformValues[name] = value
             /\ ReadsBack(gl', i, name, value)
             /\ gl'.draws = 1]_vars

\* what the encoding rule leaves in the graphics layer for a uniform that
\* held old, after value is handed to it
VecFn(n) == <<"uniform1f", "uniform2f", "uniform3f", "uniform4f">>[n]
Encoded(value, old) ==
    IF ~value.isArray THEN [fn |-> "uniform1f", args |-> value.elems]
    ELSE IF Len(value.elems) \in 1..4
         THEN [fn |-> VecFn(Len(value.elems)), args |-> value.elems]
    ELSE old

\* the same after every descriptor of the list that names the uniform
RECURSIVE EncodedList(_, _, _)
EncodedList(uniforms, name, old) ==
    IF uniforms = <<>> THEN old
    ELSE EncodedList(Tail(uniforms), name,
                     IF Head(uniforms).name = name
                     THEN Encoded(Head(uniforms).value, old) ELSE old)

\* C3: at registration and at update alike, a scalar uploads as a
\* 1-component float, an array of n in 1..4 elements as an n-component float
\* vector with the elements in order, and an array of 0 or of 5 or more
\* elements uploads nothing and leaves the graphics-layer value as it was.
C3_EncodingRule ==
    [][/\ \A name \in UniformNames, value \in Values :
             (/\ name \in inst[1].uniforms
              /\ inst'[1].uniformValues[name] = value
              /\ UpdateUniform(1, name, value))
             => GetUniform(gl', 1, name) = Encoded(value, GetUniform(gl, 1, name))
       /\ inst[1].status = "none"
             => \A p \in EncodingParams :
                   Construct(1, p)
                   => \A name \in inst'[1].uniforms :
                         GetUniform(gl', 1, name) =
                             EncodedList(p.uniforms, name, UnsetUniform)]_vars

\* C3 witness: two uniforms are registered, one was then handed the array of
\* MaxLen elements and still reads back the vec3 uploaded before, the other
\* was registered with the empty array and reads back nothing
C3_Witness ==
    /\ inst[1].uniforms = {"u_time", "u_res"}
    /\ inst[1].uniformValues["u_time"] = Arr(Iota(MaxLen))
    /\ GetUniform(gl, 1, "u_time") = [fn |-> "uniform3f", args |-> <<1, 2, 3>>]
    /\ inst[1].uniformValues["u_res"] = Arr(Iota(0))
    /\ GetUniform(gl, 1, "u_res") = UnsetUniform

\* C11: after any sequence of construction and updateUniform calls, for every
\* registered uniform the stored value (uniformValues) has the components of
\* the value last uploaded to the graphics layer for that uniform (none, for
\* a uniform never uploaded); an update with an array of 0 or of 5 or more
\* elements does not leave the two different.
C11_StoredValueIsUploadedValue ==
    \A i \in Instances :
        inst[i].status = "ok"
        => \A name \in inst[i].uniforms :
              GetUniform(gl, i, name).args = inst[i].uniformValues[name].elems

----------------------------------------------------------------------------
(* Sizing and drawing: claim C4 *)

\* C4: resize(w, h) never issues a draw and only updates the stored
\* dimensions, the drawing-surface size and the viewport; and a draw() that
\* follows resize(w, h), with no other resize in between, sets the viewport
\* to exactly (0, 0, w, h): draw sets the viewport over the surface, whose
\* size is the one of the last resize, a constructor's own included.
C4_ResizeThenDraw ==
    [][/\ \A i \in Instances, w \in Dims, h \in Dims :
             Resize(i, w, h)
             => /\ gl'.draws = 0
                /\ inst' = [inst EXCEPT ![i].width = w, ![i].height = h]
                /\ canvas' = [width |-> w, height |-> h]
                /\ gl' = [gl EXCEPT !.viewport = <<0, 0, w, h>>, !.draws = 0]
                /\ objs' = objs
       /\ \A i \in Instances :
             Draw(i)
             => /\ gl'.viewport = <<0, 0, canvas.width, canvas.height>>
                /\ gl'.draws = 1
                /\ canvas' = canvas
       /\ canvas' # canvas
             => \E i \in Instances :
                   /\ canvas' = [width |-> inst'[i].width, height |-> inst'[i].height]
                   /\ \/ \E w \in Dims, h \in Dims : Resize(i, w, h)
                      \/ inst[i].status = "none" /\ inst'[i].status = "ok"]_vars

\* C4 witness: a wrapper built 1 by 1 has drawn over the surface another
\* wrapper of the canvas resized to 2 by 1
C4_Witness ==
    /\ inst[1].status = "ok" /\ inst[2].status = "ok"
    /\ inst[1].width = 1 /\ inst[1].height = 1
    /\ inst[2].width = 2 /\ inst[2].height = 1
    /\ gl.program = 1 /\ gl.draws = 1
    /\ gl.viewport = <<0, 0, 2, 1>>

----------------------------------------------------------------------------
(* Textures, construction failure and disposal: claims C5 .. C10 *)

TextureOf(i, k) == Handle(i, "texture", k)
Owned(i) == {h \in Handles : h[1] = i}
Released(h) == objs[h].deletes > 0

\* C5: the k-th descriptor (0-based) gets texture unit k; and each texture
\* of a constructed, undisposed instance whose image load succeeds is, when
\* its load completes, bound on unit k with its named sampler uniform (one
\* the program declares) holding the integer k, whatever order the loads
\* complete in.
C5_LoadedTextureBoundToItsUnit ==
    [][/\ \A i \in Instances, k \in Units :
             k < Len(inst'[i].textures) => inst'[i].textures[k + 1].unit = k
       /\ \A i \in Instances, k \in Units :
             (/\ Usable(i)
              /\ Pending(i, k)
              /\ inst[i].textures[k + 1].name \in gl.active[i]
              /\ OnLoad(i, k))
             => /\ gl'.boundTexture[k] = TextureOf(i, k)
                /\ SamplerUnit(gl', i, inst[i].textures[k + 1].name) = k]_vars

\* C6: after one dispose() on a successfully constructed instance, every
\* graphics resource the instance created (the program, both shaders, every
\* texture and the quad vertex buffer) has been released exactly once.
C6_DisposeReleasesEverythingOnce ==
    \A i \in Instances :
        (inst[i].status = "ok" /\ inst[i].disposed)
        => \A h \in Owned(i) : objs[h].created => objs[h].deletes = 1

\* C7: when construction fails at any synchronous step, the error reaches
\* the caller and every shader, program and texture handle created before
\* the failure point has been released.
C7_FailedConstructionReleases ==
    \A i \in Instances :
        inst[i].status = "threw"
        => \A h \in Owned(i) :
              (h[2] # "buffer" /\ objs[h].created) => Released(h)

\* C8: a texture's image upload, sampling-parameter setup and sampler-uniform
\* write happen only after its own image load has completed successfully: a
\* PENDING texture has issued no graphics call and a FAILED one never does;
\* neither holds an image or sampling parameters, nor is bound to a unit.
C8_NoUploadBeforeLoad ==
    \A i \in Instances, k \in Units :
        (k < Len(inst[i].textures) /\ inst[i].textures[k + 1].loadState # "LOADED")
        => /\ inst[i].textures[k + 1].calls = <<>>
           /\ ~objs[TextureOf(i, k)].image
           /\ ~objs[TextureOf(i, k)].params
           /\ \A u \in Units : gl.boundTexture[u] # TextureOf(i, k)

\* C8 witness: of two textures of one wrapper the first failed to load and
\* issued nothing, the second loaded and issued its calls
C8_Witness ==
    /\ Len(inst[1].textures) = 2
    /\ inst[1].textures[1].loadState = "FAILED"
    /\ inst[1].textures[1].calls = <<>>
    /\ inst[1].textures[2].loadState = "LOADED"
    /\ inst[1].textures[2].calls = OnloadCalls
    /\ objs[TextureOf(1, 1)].image

\* C9: dispose() does not cancel in-flight image loads: a texture still
\* PENDING when its handle was released can still complete its load, and the
\* load callback then issues its binding, upload and uniform write for the
\* released handle.
C9_LoadAfterDisposeUsesReleasedHandle ==
    \A i \in Instances, k \in Units :
        (Pending(i, k) /\ Released(TextureOf(i, k)))
        => ENABLED (/\ OnLoad(i, k)
                    /\ inst'[i].textures[k + 1].loadState = "LOADED"
                    /\ inst'[i].textures[k + 1].calls = OnloadCalls
                    /\ objs'[TextureOf(i, k)].deletes > 0)

\* C9 witness: a disposed wrapper's texture is LOADED and has issued its
\* calls, yet holds no image: its handle was already released when the
\* callback bound it
C9_Witness ==
    \E i \in Instances :
        /\ inst[i].disposed
        /\ Len(inst[i].textures) > 0
        /\ inst[i].textures[1].loadState = "LOADED"
        /\ inst[i].textures[1].calls = OnloadCalls
        /\ objs[TextureOf(i, 0)].deletes = 1
        /\ ~objs[TextureOf(i, 0)].image

\* C10: whenever a texture's load callback writes its unit index with
\* uniform1i, the program in use on the context is the program the texture
\* was created for.
C10_SamplerWrittenWithOwnProgramInUse ==
    [][\A i \in Instances, k \in Units :
          (/\ Pending(i, k)
           /\ GetUniformLocation(gl, objs, i, inst[i].textures[k + 1].name)
                  # NullLocation
           /\ OnLoad(i, k))
          => gl.program = i]_vars

====
